---- MODULE Spec2Model ----
(***************************************************************************)
(* A model of DiabetesExerciseEnv (src/src/envs/diabetes_env.py).          *)
(*                                                                         *)
(* Floating-point quantities are held in fixed point:                      *)
(*   glucose, heart_rate and their bounds/targets   in tenths (0.1)        *)
(*   fatigue, adherence and the reward              in thousandths (0.001) *)
(*   time_of_day in whole hours, steps in whole steps.                     *)
(* Every product with a fractional coefficient is rounded to the grid by   *)
(* Rnd, which plays the part of the float rounding of the program; all     *)
(* modelled magnitudes are far below 2^24, so the float32 state array      *)
(* stores them without further loss.                                       *)
(*                                                                         *)
(* The generator behind self.np_random is modelled as a small full-state   *)
(* congruential generator: a seed fixes its state, every draw advances it, *)
(* and a generator created without a seed starts in an arbitrary state.    *)
(***************************************************************************)
EXTENDS Integers, Sequences, FiniteSets, TLC

VARIABLES
    config,   \* the keyword arguments given to __init__
    env,      \* env[e]: the fields of engine instance e and the outcome of its last call
    paired    \* TRUE while the instances were reset with one seed and driven in lockstep

vars == <<config, env, paired>>

(***************************************************************************)
(* Bounds of the model.                                                    *)
(***************************************************************************)
\* successful steps explored per episode
MaxStepCount == 4
\* number of states of the modelled generator
RngMod == 8
\* seeds offered to reset(seed=...)
NumSeeds == 2
\* successful steps per episode explored while two instances run in lockstep
MaxPairSteps == 2
\* successful steps per episode explored while one of two instances runs on its own
MaxSoloSteps == 1

(***************************************************************************)
(* Arithmetic helpers.                                                     *)
(***************************************************************************)
Max(a, b) == IF a >= b THEN a ELSE b
Min(a, b) == IF a <= b THEN a ELSE b
Abs(a) == IF a >= 0 THEN a ELSE -a

\* n / d rounded to the nearest grid point (d > 0)
Rnd(n, d) == (2 * n + d) \div (2 * d)

\* np.clip(x, lo, hi) = minimum(maximum(x, lo), hi); with lo > hi the result is hi
clip(x, lo, hi) == Min(Max(x, lo), hi)

\* tanh at 0.0, 0.1, ... , 1.5 in thousandths
TanhTable == <<0, 100, 197, 291, 380, 462, 537, 604, 664, 716, 762, 800, 834, 862, 885, 905>>

\* tanh of x thousandths, in thousandths: odd, interpolated linearly between table points
tanh(x) ==
    LET m == Min(Abs(x), 1500)
        i == m \div 100
        lo == TanhTable[i + 1]
        hi == IF i >= 15 THEN lo ELSE TanhTable[i + 2]
        v == lo + Rnd((hi - lo) * (m - 100 * i), 100)
    IN IF x >= 0 THEN v ELSE -v

(***************************************************************************)
(* The random source (self.np_random).                                     *)
(***************************************************************************)
RngStates == 0 .. (RngMod - 1)
Seeds == 0 .. (NumSeeds - 1)
\* seed=None
NoSeed == -1
\* self._np_random is None: no generator created yet
NoRng == -1

\* the generator state a seed produces
SeedState(seed) == (5 * seed + 2) % RngMod

\* the generator state after one draw
RngNext(r) == (5 * r + 3) % RngMod

\* a standard normal draw in tenths of a standard deviation
NormalZ(r) == (((3 * r) % 5) - 2) * 10

\* Generator.normal(loc, scale)
normal(r, loc, scale) == loc + Rnd(scale * NormalZ(r), 10)

\* Generator.uniform(low, high)
uniform(r, low, high) == low + ((high - low) * r) \div RngMod

\* Generator.integers(low, high): high exclusive
integers(r, low, high) == low + (r % (high - low))

(***************************************************************************)
(* Configuration and construction.                                         *)
(***************************************************************************)
\* the default keyword arguments of __init__
DefaultConfig ==
    [ day_length        |-> 24,
      step_target       |-> 9000,
      max_daily_steps   |-> 18000,
      glucose_target    |-> 1100,
      glucose_bounds    |-> <<600, 3500>>,
      heart_rate_bounds |-> <<500, 1900>> ]

\* the configurations offered to the constructor
Configs ==
    { DefaultConfig,
      [DefaultConfig EXCEPT !.day_length = 3, !.step_target = 3000,
                            !.max_daily_steps = 3000, !.glucose_bounds = <<900, 1600>>,
                            !.heart_rate_bounds = <<500, 1200>>],
      [DefaultConfig EXCEPT !.day_length = 9, !.glucose_bounds = <<1000, 1000>>],
      [DefaultConfig EXCEPT !.day_length = 0],
      [DefaultConfig EXCEPT !.step_target = 0],
      [DefaultConfig EXCEPT !.max_daily_steps = 8999] }

resting_hr == 720

\* hour of day -> mean glucose bump, in tenths
meal_schedule == (8 :> 420) @@ (13 :> 460) @@ (19 :> 380)

\* action id -> profile
action_catalog ==
    (0 :> [ name |-> "rest", step_gain |-> 0, glucose_effect |-> 25,
            hr_effect |-> -80, fatigue_delta |-> -180, adherence_delta |-> 50 ])
 @@ (1 :> [ name |-> "light_walk", step_gain |-> 1600, glucose_effect |-> -65,
            hr_effect |-> 120, fatigue_delta |-> 40, adherence_delta |-> 20 ])
 @@ (2 :> [ name |-> "moderate_jog", step_gain |-> 2900, glucose_effect |-> -120,
            hr_effect |-> 240, fatigue_delta |-> 90, adherence_delta |-> -30 ])
 @@ (3 :> [ name |-> "high_intensity", step_gain |-> 3600, glucose_effect |-> -180,
            hr_effect |-> 360, fatigue_delta |-> 160, adherence_delta |-> -70 ])

\* spaces.Discrete(len(self._action_catalog)).contains(action)
action_space_contains(action) == action \in DOMAIN action_catalog

\* self.state is None
None == <<>>

\* what a call returned or raised; args is used only by direct calls of a helper
Ret(op, args, error) ==
    [ op |-> op, args |-> args, error |-> error, reward |-> 0,
      terminated |-> FALSE, truncated |-> FALSE, termination_reason |-> "None",
      meal |-> FALSE ]

\* the three checks of the constructor, in order
config_error(cfg) ==
    IF cfg.day_length <= 0 THEN "day_length must be > 0"
    ELSE IF cfg.step_target <= 0 THEN "step_target must be > 0"
    ELSE IF cfg.max_daily_steps < cfg.step_target THEN "max_daily_steps must be >= step_target"
    ELSE "None"

\* obs_low / obs_high as handed to spaces.Box
obs_low(cfg) == <<cfg.glucose_bounds[1], cfg.heart_rate_bounds[1], 0, 0, 0, 0>>
obs_high(cfg) ==
    <<cfg.glucose_bounds[2], cfg.heart_rate_bounds[2], 1000, 1000,
      cfg.day_length - 1, cfg.max_daily_steps>>

\* The outcomes of spaces.Box(low, high): it always accepts low <= high; whether it
\* raises on low > high depends on the installed gymnasium release, so both outcomes
\* are possible there.
box_outcomes(low, high) ==
    IF \E i \in 1 .. 6 : low[i] > high[i] THEN {"None", "ValueError"} ELSE {"None"}

\* an engine record: constructed or not, with the outcome of the constructor call
Engine(ok, error) ==
    [ constructed  |-> ok,
      state        |-> None,
      _step_count  |-> 0,
      _last_action |-> 0,
      np_random    |-> NoRng,
      ret          |-> Ret("__init__", <<>>, error),
      \* bookkeeping about the history of calls, read only by the properties
      since_reset  |-> 0,
      lifecycle    |-> "unstarted",
      closes       |-> 0,
      carried      |-> FALSE ]

\* DiabetesExerciseEnv(**cfg): the set of possible outcomes
__init__(cfg) ==
    IF config_error(cfg) # "None" THEN {Engine(FALSE, "ValueError")}
    ELSE { Engine(b = "None", b) : b \in box_outcomes(obs_low(cfg), obs_high(cfg)) }

(***************************************************************************)
(* The per-attribute updates, the reward and the termination predicate.    *)
(***************************************************************************)
_update_fatigue(fatigue, profile, cfg) ==
    LET f1 == fatigue + profile.fatigue_delta
        f2 == IF profile.step_gain <= 0
              THEN f1 - Rnd(5 * Max(0, f1 - 250), 100)
              ELSE f1
        f3 == f2 + Max(0, Rnd(15 * profile.step_gain, cfg.step_target))
    IN clip(f3, 0, 1000)

_update_adherence(adherence, fatigue, profile) ==
    LET a1 == adherence + profile.adherence_delta
        a2 == a1 - Rnd(12 * Max(0, fatigue - 780), 100)
        a3 == a2 + Rnd(3 * tanh(600 - fatigue), 100)
    IN clip(a3, 0, 1000)

\* next_hour looking at the hour the step starts in
next_hour_current(time_of_day, cfg) == time_of_day % cfg.day_length

\* the hour whose meal _update_glucose looks up
next_hour(time_of_day, cfg) == (time_of_day + 1) % cfg.day_length

\* returns the new glucose, the generator state after its draws, and whether a meal
\* sample was drawn
_update_glucose(glucose, profile, time_of_day, r, cfg) ==
    LET drift == Rnd(6 * (cfg.glucose_target - glucose), 100)
        noise == normal(r, 0, 30)
        r1    == RngNext(r)
        meal  == next_hour(time_of_day, cfg) \in DOMAIN meal_schedule
        meal_delta == IF meal
                      THEN normal(r1, meal_schedule[next_hour(time_of_day, cfg)], 60)
                      ELSE 0
        r2    == IF meal THEN RngNext(r1) ELSE r1
    IN [ glucose |-> clip(glucose + drift + profile.glucose_effect + meal_delta + noise,
                          cfg.glucose_bounds[1], cfg.glucose_bounds[2]),
         np_random |-> r2,
         meal |-> meal ]

\* returns the new heart rate and the generator state after its draw
_update_heart_rate(heart_rate, glucose, fatigue, profile, r, cfg) ==
    LET baseline_pull == Rnd(10 * resting_hr + fatigue - 10 * heart_rate, 40)
        glucose_load  == Rnd(4 * (glucose - cfg.glucose_target), 100)
        variability   == normal(r, 0, 25)
    IN [ heart_rate |-> clip(heart_rate + baseline_pull + profile.hr_effect
                               + glucose_load + variability,
                             cfg.heart_rate_bounds[1], cfg.heart_rate_bounds[2]),
         np_random |-> RngNext(r) ]

\* the reward in thousandths
_compute_reward(glucose, heart_rate, fatigue, adherence, steps, time_of_day, profile, cfg) ==
    LET glucose_component ==
            clip(1000 - Rnd(1000 * Abs(glucose - cfg.glucose_target), 400), -1000, 1000)
        activity_ratio == Min(Rnd(1000 * steps, cfg.step_target), 1500)
        activity_component == Rnd(5 * tanh(activity_ratio - 800), 10)
        adherence_component == Rnd(6 * (adherence - 500), 10)
        fatigue_penalty == -Rnd(5 * tanh(2 * Max(0, fatigue - 350)), 10)
        heart_rate_penalty == -Rnd(4 * Max(0, Rnd(1000 * (heart_rate - 1650), 350)), 10)
        late1 == IF 10 * time_of_day > 6 * cfg.day_length /\ 100 * steps < 45 * cfg.step_target
                 THEN -200 ELSE 0
        late2 == IF profile.step_gain = 0 /\ 10 * steps < 2 * cfg.step_target
                 THEN -50 ELSE 0
        low   == IF glucose < 800 THEN -300 ELSE 0
        high  == IF glucose > 2000 THEN -200 ELSE 0
    IN glucose_component + activity_component + adherence_component + fatigue_penalty
         + heart_rate_penalty + late1 + late2 + low + high

\* _check_termination testing the heart rate before the glucose
_check_termination_heart_first(glucose, heart_rate, adherence, cfg) ==
    IF heart_rate >= cfg.heart_rate_bounds[2] THEN <<TRUE, "dangerous_heart_rate">>
    ELSE IF glucose <= cfg.glucose_bounds[1] THEN <<TRUE, "severe_hypoglycemia">>
    ELSE IF glucose >= cfg.glucose_bounds[2] THEN <<TRUE, "severe_hyperglycemia">>
    ELSE IF adherence <= 50 THEN <<TRUE, "adherence_failure">>
    ELSE <<FALSE, "None">>

\* <<terminated, termination_reason>>; the 1e-6 tolerances of the comparisons are
\* below the grid and vanish on it
_check_termination(glucose, heart_rate, adherence, cfg) ==
    IF glucose <= cfg.glucose_bounds[1] THEN <<TRUE, "severe_hypoglycemia">>
    ELSE IF glucose >= cfg.glucose_bounds[2] THEN <<TRUE, "severe_hyperglycemia">>
    ELSE IF heart_rate >= cfg.heart_rate_bounds[2] THEN <<TRUE, "dangerous_heart_rate">>
    ELSE IF adherence <= 50 THEN <<TRUE, "adherence_failure">>
    ELSE <<FALSE, "None">>

(***************************************************************************)
(* The public operations, as functions from an engine record to the set of *)
(* engine records the call can leave behind.                               *)
(***************************************************************************)
\* reseed keeping a generator that already exists, whatever the seed
reseed_keeps_generator(s, seed) ==
    IF s.np_random # NoRng THEN {s.np_random}
    ELSE IF seed # NoSeed THEN {SeedState(seed)}
    ELSE RngStates

\* super().reset(seed=seed) followed by the first use of self.np_random: the states the
\* generator can be in when reset starts sampling
reseed(s, seed) ==
    IF seed # NoSeed THEN {SeedState(seed)}
    ELSE IF s.np_random = NoRng THEN RngStates
    ELSE {s.np_random}

reset(s, seed, cfg) ==
    { LET r1 == RngNext(r0)
          r2 == RngNext(r1)
          r3 == RngNext(r2)
          r4 == RngNext(r3)
          glucose == clip(normal(r0, cfg.glucose_target + 150, 180),
                          cfg.glucose_bounds[1], cfg.glucose_bounds[2])
          heart_rate == clip(normal(r1, resting_hr + 30, 50),
                             cfg.heart_rate_bounds[1], cfg.heart_rate_bounds[2])
          fatigue == clip(uniform(r2, 150, 350), 0, 1000)
          adherence == clip(uniform(r3, 650, 900), 0, 1000)
          time_of_day == integers(r4, 6, 9)
          steps == 0
      IN [ s EXCEPT
             !._step_count = 0,
             !._last_action = 0,
             !.state = <<glucose, heart_rate, fatigue, adherence, time_of_day, steps>>,
             !.np_random = RngNext(r4),
             !.ret = Ret("reset", <<>>, "None"),
             !.since_reset = 0,
             !.lifecycle = "active",
             !.closes = 0,
             !.carried = (s.since_reset > 0) ]
      : r0 \in reseed(s, seed) }

\* step on an engine whose state is None: raises RuntimeError
step_not_reset(s, action) ==
    [s EXCEPT !.ret = Ret("step", <<>>, "RuntimeError")]

\* step_invalid_action raising only after the step was counted
step_invalid_action_counted(s, action) ==
    [s EXCEPT !._step_count = s._step_count + 1, !.ret = Ret("step", <<>>, "ValueError")]

\* step with an action outside the action space: raises ValueError
step_invalid_action(s, action) ==
    [s EXCEPT !.ret = Ret("step", <<>>, "ValueError")]

\* step_steps without the cap
step_steps_uncapped(steps, profile, cfg) == steps + profile.step_gain

\* steps = min(steps + profile["step_gain"], self.max_daily_steps)
step_steps(steps, profile, cfg) == Min(steps + profile.step_gain, cfg.max_daily_steps)

\* step_truncated one step late
step_truncated_late(step_count, terminated, cfg) ==
    step_count > cfg.day_length /\ ~terminated

\* step_truncated without regard to termination
step_truncated_regardless(step_count, terminated, cfg) ==
    step_count >= cfg.day_length

\* truncated = self._step_count >= self.day_length and not terminated
step_truncated(step_count, terminated, cfg) ==
    step_count >= cfg.day_length /\ ~terminated

\* the body of step once both checks passed
step_apply(s, action, cfg) ==
    LET profile == action_catalog[action]
        step_count == s._step_count + 1
        steps == step_steps(s.state[6], profile, cfg)
        fatigue == _update_fatigue(s.state[3], profile, cfg)
        adherence == _update_adherence(s.state[4], fatigue, profile)
        g == _update_glucose(s.state[1], profile, s.state[5], s.np_random, cfg)
        h == _update_heart_rate(s.state[2], g.glucose, fatigue, profile, g.np_random, cfg)
        time_of_day == (s.state[5] + 1) % cfg.day_length
        reward == _compute_reward(g.glucose, h.heart_rate, fatigue, adherence, steps,
                                  time_of_day, profile, cfg)
        term == _check_termination(g.glucose, h.heart_rate, adherence, cfg)
        truncated == step_truncated(step_count, term[1], cfg)
        termination_reason == IF truncated /\ term[2] = "None" THEN "end_of_day" ELSE term[2]
    IN [ s EXCEPT
           !._step_count = step_count,
           !._last_action = action,
           !.state = <<g.glucose, h.heart_rate, fatigue, adherence, time_of_day, steps>>,
           !.np_random = h.np_random,
           !.ret = [ op |-> "step", args |-> <<>>, error |-> "None",
                     reward |-> reward, terminated |-> term[1], truncated |-> truncated,
                     termination_reason |-> termination_reason, meal |-> g.meal ],
           !.since_reset = s.since_reset + 1 ]

step(s, action, cfg) ==
    IF s.state = None THEN step_not_reset(s, action)
    ELSE IF ~action_space_contains(action) THEN step_invalid_action(s, action)
    ELSE step_apply(s, action, cfg)

\* close leaving the state array in place
close_keeps_state(s) ==
    [ s EXCEPT
        !.ret = Ret("close", <<>>, "None"),
        !.lifecycle = "closed",
        !.closes = Min(s.closes + 1, 2) ]

close(s) ==
    [ s EXCEPT
        !.state = None,
        !.ret = Ret("close", <<>>, "None"),
        !.lifecycle = "closed",
        !.closes = Min(s.closes + 1, 2) ]

(***************************************************************************)
(* One engine driven by an arbitrary caller.                               *)
(***************************************************************************)
\* action ids a caller may pass: the four valid ones and one on each side
ActionInputs == -1 .. 4

Init ==
    /\ config \in Configs
    /\ env \in { (1 :> o) : o \in __init__(config) }
    /\ paired = FALSE

Reset(e, seed) ==
    /\ env[e].constructed
    /\ \E o \in reset(env[e], seed, config) : env' = [env EXCEPT ![e] = o]
    /\ paired' = FALSE
    /\ UNCHANGED config

\* cap bounds the successful steps of one episode
Step(e, action, cap) ==
    /\ env[e].constructed
    /\ \/ env[e].state = None
       \/ ~action_space_contains(action)
       \/ env[e]._step_count < cap
    /\ env' = [env EXCEPT ![e] = step(env[e], action, config)]
    /\ paired' = FALSE
    /\ UNCHANGED config

Close(e) ==
    /\ env[e].constructed
    /\ env' = [env EXCEPT ![e] = close(env[e])]
    /\ paired' = FALSE
    /\ UNCHANGED config

DoReset == \E e \in DOMAIN env : \E seed \in Seeds \cup {NoSeed} : Reset(e, seed)
DoStep == \E e \in DOMAIN env : \E action \in ActionInputs : Step(e, action, MaxStepCount)
DoClose == \E e \in DOMAIN env : Close(e)

Next == DoReset \/ DoStep \/ DoClose

Spec == Init /\ [][Next]_vars

(***************************************************************************)
(* Properties of one engine.                                               *)
(***************************************************************************)
Engines == DOMAIN env
ValidActions == DOMAIN action_catalog
InvalidActions == ActionInputs \ ValidActions

\* the last call on e was a step that returned normally
StepReturned(e) == env[e].ret.op = "step" /\ env[e].ret.error = "None"

\* the transition is a call of step on e that returns normally; the action it was
\* given is then env'[e]._last_action
StepTaken(e) ==
    /\ env'[e].ret.op = "step" /\ env'[e].ret.error = "None"
    /\ env'[e].since_reset = env[e].since_reset + 1

\* the declared bound of every state field
WithinBounds(st, cfg) ==
    /\ cfg.glucose_bounds[1] <= st[1] /\ st[1] <= cfg.glucose_bounds[2]
    /\ cfg.heart_rate_bounds[1] <= st[2] /\ st[2] <= cfg.heart_rate_bounds[2]
    /\ 0 <= st[3] /\ st[3] <= 1000
    /\ 0 <= st[4] /\ st[4] <= 1000
    /\ 0 <= st[5] /\ st[5] <= cfg.day_length - 1
    /\ 0 <= st[6] /\ st[6] <= cfg.max_daily_steps

\* C1: for every configuration the constructor accepts, after every reset and every
\* successful step each state field lies within its declared bound.
C1_StateWithinBounds ==
    \A e \in Engines :
        (env[e].constructed /\ env[e].state # None) => WithinBounds(env[e].state, config)

\* the constraints the constructor is documented to enforce
ConfigConstraints(cfg) ==
    /\ cfg.day_length > 0
    /\ cfg.step_target > 0
    /\ cfg.max_daily_steps >= cfg.step_target
    /\ cfg.glucose_bounds[1] < cfg.glucose_bounds[2]
    /\ cfg.heart_rate_bounds[1] < cfg.heart_rate_bounds[2]

\* C2: construction fails, and yields no engine, whenever one of the documented
\* constraints on the configuration is violated.
C2_InvalidConfigRejected ==
    \A e \in Engines :
        ~ConfigConstraints(config) =>
            (~env[e].constructed /\ env[e].ret.error = "ValueError")

\* the six state fields, the step counter and the last action are the same after
\* the transition
EngineUntouched(e) ==
    /\ env'[e].state = env[e].state
    /\ env'[e]._step_count = env[e]._step_count
    /\ env'[e]._last_action = env[e]._last_action

\* C3: step with an action id outside 0..3 on a reset engine raises the invalid-action
\* error and leaves the state fields, the step counter and the last action unchanged.
C3_InvalidActionChangesNothing ==
    [][ \A e \in Engines :
          /\ \A action \in InvalidActions :
                (env[e].state # None /\ Step(e, action, MaxStepCount))
                    => (env'[e].ret.error = "ValueError" /\ EngineUntouched(e))
          /\ (env'[e].ret.op = "step" /\ env'[e].ret.error = "ValueError")
                => EngineUntouched(e)
      ]_vars

\* a failed step with an invalid action, one successful step short of the end of the day
C3_Witness ==
    \E e \in Engines :
        /\ env[e].state # None
        /\ env[e].ret.op = "step" /\ env[e].ret.error = "ValueError"
        /\ env[e]._step_count = config.day_length - 1

\* C4: while the state is undefined (before the first reset, or after one or more
\* closes with no reset since) step raises the invalid-state error for every action
\* and changes nothing; after a reset, step with a valid action succeeds again.
C4_StepNeedsReset ==
    [][ \A e \in Engines : \A action \in ActionInputs :
          /\ (env[e].lifecycle # "active" /\ Step(e, action, MaxStepCount))
                => ( /\ env'[e].ret.error = "RuntimeError"
                     /\ env'[e].state = None
                     /\ EngineUntouched(e) )
          /\ (env[e].ret.op = "reset" /\ action \in ValidActions
                /\ Step(e, action, MaxStepCount))
                => env'[e].ret.error = "None"
      ]_vars

\* a step that failed on an engine closed twice after an episode with steps
C4_Witness ==
    \E e \in Engines :
        /\ env[e].ret.op = "step" /\ env[e].ret.error = "RuntimeError"
        /\ env[e].closes = 2
        /\ env[e]._step_count > 0

\* C5: after a successful step, truncated is true exactly when the step did not
\* terminate and the successful steps since the most recent reset number at least
\* day_length.
C5_TruncationAtDayLength ==
    \A e \in Engines :
        StepReturned(e) =>
            (env[e].ret.truncated <=>
                (~env[e].ret.terminated /\ env[e].since_reset >= config.day_length))

\* truncation on step day_length of an episode that followed an earlier episode with steps
C5_Witness ==
    \E e \in Engines :
        /\ StepReturned(e)
        /\ env[e].ret.truncated
        /\ env[e].since_reset = config.day_length
        /\ env[e].carried

SafetyReasons ==
    {"severe_hypoglycemia", "severe_hyperglycemia", "dangerous_heart_rate", "adherence_failure"}

\* C6: after a successful step terminated and truncated are never both true, and the
\* termination reason is a safety reason exactly when terminated, "end_of_day" exactly
\* when truncated, and null exactly when both flags are false.
C6_FlagsAndReasonAgree ==
    \A e \in Engines :
        StepReturned(e) =>
            LET r == env[e].ret IN
            /\ ~(r.terminated /\ r.truncated)
            /\ (r.termination_reason \in SafetyReasons) <=> r.terminated
            /\ (r.termination_reason = "end_of_day") <=> r.truncated
            /\ (r.termination_reason = "None") <=> (~r.terminated /\ ~r.truncated)

\* a step that terminates when the day is already over: terminated, not truncated
C6_Witness ==
    \E e \in Engines :
        /\ StepReturned(e)
        /\ env[e].ret.terminated
        /\ ~env[e].ret.truncated
        /\ env[e].ret.termination_reason \in SafetyReasons
        /\ env[e].since_reset >= config.day_length

\* C8: within an episode steps never decreases, grows by exactly the action's step_gain
\* until max_daily_steps caps it, never exceeds max_daily_steps, and reset sets it to 0.
C8_StepsMonotoneAndCapped ==
    [][ \A e \in Engines :
          /\ StepTaken(e) =>
                LET before == env[e].state[6]
                    after  == env'[e].state[6]
                    gain   == action_catalog[env'[e]._last_action].step_gain
                IN /\ after >= before
                   /\ after <= config.max_daily_steps
                   /\ after = IF before + gain <= config.max_daily_steps
                              THEN before + gain
                              ELSE config.max_daily_steps
          /\ env'[e].ret.op = "reset" => env'[e].state[6] = 0
      ]_vars

\* a first step of an episode whose gain was cut short by the cap
C8_Witness ==
    \E e \in Engines :
        /\ StepReturned(e)
        /\ env[e].since_reset = 1
        /\ env[e].state[6] = config.max_daily_steps
        /\ env[e].state[6] < action_catalog[env[e]._last_action].step_gain

\* C10: a successful step moves time_of_day to (time_of_day + 1) mod day_length, and it
\* draws a meal bump exactly when that new hour is a key of the meal schedule.
C10_MealOnEnteringMealHour ==
    [][ \A e \in Engines :
          StepTaken(e) =>
              /\ env'[e].state[5] = (env[e].state[5] + 1) % config.day_length
              /\ env'[e].ret.meal <=> (env'[e].state[5] \in DOMAIN meal_schedule)
      ]_vars

\* the step taken from meal hour 8, after the step that entered it: no meal drawn
C10_Witness ==
    \E e \in Engines :
        /\ StepReturned(e)
        /\ env[e].state[5] = 9
        /\ env[e].since_reset >= 2
        /\ ~env[e].ret.meal

(***************************************************************************)
(* The termination predicate called directly, as the tests call it.        *)
(***************************************************************************)
\* values on and next to each threshold
GlucoseInputs(cfg) ==
    { cfg.glucose_bounds[1] - 1, cfg.glucose_bounds[1], cfg.glucose_bounds[1] + 1,
      cfg.glucose_target,
      cfg.glucose_bounds[2] - 1, cfg.glucose_bounds[2], cfg.glucose_bounds[2] + 1 }
HeartRateInputs(cfg) ==
    { cfg.heart_rate_bounds[1], resting_hr,
      cfg.heart_rate_bounds[2] - 1, cfg.heart_rate_bounds[2], cfg.heart_rate_bounds[2] + 1 }
AdherenceInputs == {0, 49, 50, 51, 500}

\* env._check_termination(glucose, heart_rate, adherence)
Probe(e, glucose, heart_rate, adherence) ==
    /\ env[e].constructed
    /\ LET t == _check_termination(glucose, heart_rate, adherence, config)
       IN env' = [env EXCEPT ![e].ret =
                    [ Ret("_check_termination", <<glucose, heart_rate, adherence>>, "None")
                        EXCEPT !.terminated = t[1], !.termination_reason = t[2] ]]
    /\ UNCHANGED <<config, paired>>

DoProbe ==
    \E e \in DOMAIN env :
        \E glucose \in GlucoseInputs(config), heart_rate \in HeartRateInputs(config),
           adherence \in AdherenceInputs :
            Probe(e, glucose, heart_rate, adherence)

NextTerm == DoProbe

SpecTerm == Init /\ [][NextTerm]_vars

PairConfig ==
    [DefaultConfig EXCEPT !.day_length = 2, !.glucose_bounds = <<900, 1600>>]

\* the actions of the side-by-side runs: rest and high_intensity
PairActions == {0, 3}

InitPair ==
    /\ config = PairConfig
    /\ env \in [{1, 2} -> __init__(config)]
    /\ paired = FALSE

\* both engines call reset(seed=seed)
PairReset(seed) ==
    /\ \A e \in DOMAIN env : env[e].constructed
    /\ \E o1 \in reset(env[1], seed, config), o2 \in reset(env[2], seed, config) :
          env' = (1 :> o1) @@ (2 :> o2)
    /\ paired' = TRUE
    /\ UNCHANGED config

\* both engines, reset together, call step(action)
PairStep(action) ==
    /\ paired
    /\ \A e \in DOMAIN env : env[e]._step_count < MaxPairSteps
    /\ env' = [e \in DOMAIN env |-> step(env[e], action, config)]
    /\ paired' = TRUE
    /\ UNCHANGED config

DoPairReset == \E seed \in Seeds : PairReset(seed)
DoPairStep == \E action \in PairActions : PairStep(action)
SoloReset == \E e \in DOMAIN env : \E seed \in Seeds \cup {NoSeed} : Reset(e, seed)
SoloStep == \E e \in DOMAIN env : \E action \in PairActions : Step(e, action, MaxSoloSteps)
SoloClose == \E e \in DOMAIN env : Close(e)

NextPair == DoPairReset \/ DoPairStep \/ SoloReset \/ SoloStep \/ SoloClose

SpecPair == InitPair /\ [][NextPair]_vars

\* C9: two engines with the same configuration that both call reset(seed=S) and then
\* receive the same actions return the same observation, reward, terminated and
\* truncated at every step, whatever each did before.
C9_SeededEpisodesAgree ==
    paired =>
        /\ env[1].state = env[2].state
        /\ env[1].ret.op = env[2].ret.op
        /\ env[1].ret.error = env[2].ret.error
        /\ env[1].ret.reward = env[2].ret.reward
        /\ env[1].ret.terminated = env[2].ret.terminated
        /\ env[1].ret.truncated = env[2].ret.truncated

\* the engines run in lockstep to the end of the day after different histories: one
\* had an earlier episode with steps, the other none
C9_Witness ==
    /\ paired
    /\ env[1].ret.op = "step" /\ env[1].ret.truncated
    /\ env[1].carried /\ ~env[2].carried

====
